---- MODULE Spec2Model ----
(***************************************************************************)
(* Model of the Eikon gateway (src/app/main.py): the access guard          *)
(* verify_token, the quota and envelope tracker with_error, and the five   *)
(* request handlers.                                                       *)
(*                                                                         *)
(* Python values are records tagged by their type in the field t, so that  *)
(* None, strings, integers, tuples, lists, dicts and data frames stay      *)
(* distinct values.  A dict is the sequence of its (key, value) pairs in   *)
(* insertion order.                                                        *)
(*                                                                         *)
(* A date is a day number; Day(d) is its day-of-month in a calendar whose  *)
(* months all have DaysPerMonth days.  The code reads only the            *)
(* day-of-month of a date (date.day) and never compares whole dates.       *)
(***************************************************************************)
EXTENDS Integers, Sequences, FiniteSets, TLC

VARIABLES
    REQUEST_COUNTER,  \* main.py:23, the module global
    PREVIOUS_DATE,    \* main.py:22, the module global
    today,            \* what date.today() returns now
    secret,           \* os.getenv("EIKON_SECRET_KEY")
    served,           \* requests handled so far (bounds the run)
    resp,             \* what the last operation did and returned
    run,              \* history: the one-day run of wrap calls in progress
    thr,              \* the threads executing with_error step by step
    incs,             \* history: increments stored since the last reset
    stale,            \* history: a store overwrote a value it had not loaded
    ref,              \* history: a tracker that resets whenever the full date changes
    race              \* history: what overlapping calls have done to the quota

vars == <<REQUEST_COUNTER, PREVIOUS_DATE, today, secret, served, resp, run, thr, incs, stale,
         ref, race>>

---------------------------------------------------------------------------
(* Bounds of the model *)

DaysPerMonth == 2
MaxDate == 4
MaxOver == 2
MaxRequests == 2
NThreads == 2
MaxCalls == 2
MaxRaceCalls == 4

(* Program constants *)

MAXIMUM_NUMBER_OF_REQUESTS == 10000

---------------------------------------------------------------------------
(* Python values *)

PyNone == [t |-> "none"]
PyStr(s) == [t |-> "str", s |-> s]
PyInt(n) == [t |-> "int", n |-> n]
PyTuple(items) == [t |-> "tuple", items |-> items]
PyList(items) == [t |-> "list", items |-> items]
PyDict(pairs) == [t |-> "dict", pairs |-> pairs]
DataFrame(index_name, index, columns, rows) ==
    [t |-> "df", index_name |-> index_name, index |-> index,
     columns |-> columns, rows |-> rows]

Returned(v) == [raised |-> FALSE, value |-> v]
Raised(msg) == [raised |-> TRUE, message |-> msg]

Range(s) == {s[i] : i \in DOMAIN s}
Prepend(x, s) == <<x>> \o s

---------------------------------------------------------------------------
(* Dates *)

Dates == 0..MaxDate
Day(d) == (d % DaysPerMonth) + 1
Yesterday(d) == d - 1

---------------------------------------------------------------------------
(* with_error: the data frame conversion of lines 67-71 *)

isinstance_DataFrame(data) == data.t = "df"

\* the index put after the data columns
reset_index_append(df) ==
    Returned(DataFrame(PyNone, [i \in DOMAIN df.rows |-> PyInt(i - 1)],
                       Append(df.columns, "index"),
                       [i \in DOMAIN df.rows |-> Append(df.rows[i], df.index[i])]))

(* DataFrame.reset_index(level=0): the index becomes the first column, named
   after the index, or "index" (or "level_0" when a column is already called
   "index") for an unnamed index; inserting a name that is already a column
   raises ValueError. *)
reset_index(df) ==
    LET name == IF df.index_name # PyNone THEN df.index_name.s
                ELSE IF "index" \in Range(df.columns) THEN "level_0" ELSE "index"
    IN IF name \in Range(df.columns)
       THEN Raised("cannot insert " \o name \o ", already exists")
       ELSE Returned(DataFrame(PyNone,
                               [i \in DOMAIN df.rows |-> PyInt(i - 1)],
                               Prepend(name, df.columns),
                               [i \in DOMAIN df.rows |-> Prepend(df.index[i], df.rows[i])]))

(* A cell as json.loads reads it back from to_json: NaN is written as null. *)
json_cell(c) == IF c = "NaN" THEN PyNone ELSE PyStr(c)

(* json.loads(df.to_json(orient="records")): one dict per row, in row order,
   its keys the columns in column order; duplicate column names raise. *)
to_json_records(df) ==
    IF Cardinality(Range(df.columns)) # Len(df.columns)
    THEN Raised("DataFrame columns must be unique for orient='records'.")
    ELSE Returned(PyList([i \in DOMAIN df.rows |->
                    PyDict([j \in DOMAIN df.columns |->
                             <<df.columns[j], json_cell(df.rows[i][j])>>])]))

convert(data) ==
    IF isinstance_DataFrame(data)
    THEN LET flat == reset_index(data)
         IN IF flat.raised THEN flat ELSE to_json_records(flat.value)
    ELSE Returned(data)

---------------------------------------------------------------------------
(* with_error: the quota bookkeeping of lines 58-66 *)

Error429 == [t |-> "error", code |-> PyStr("429"),
             message |-> PyStr("Too many requests, please try again later.")]

Envelope(data, error) == [t |-> "envelope", data |-> data, error |-> error]

\* a tracker that compares whole dates
new_day_full_date(now, prev) == now # prev

\* a comparison of a date with a day number, which never matches
new_day_mistyped(now, prev) == TRUE

\* line 60
new_day(now, prev) == Day(now) # Day(prev)

\* the limit check left out
over_limit_never(counter) == FALSE

\* the limit check off by one
over_limit_strict(counter) == counter > MAXIMUM_NUMBER_OF_REQUESTS

\* line 64
over_limit(counter) == counter >= MAXIMUM_NUMBER_OF_REQUESTS

\* an increment that stores the value it loaded
incremented_noop(counter) == counter

\* line 66
incremented(counter) == counter + 1

\* the limit checked before the reset step
with_error_check_first(data, counter, prev, now) ==
    LET reset == new_day(now, prev)
        error == IF over_limit(counter) THEN Error429 ELSE PyNone
        conv == convert(data)
    IN [counter |-> incremented(IF reset THEN 0 ELSE counter),
        prev |-> now,
        reset |-> reset,
        error |-> error,
        raised |-> conv.raised,
        result |-> IF conv.raised THEN conv ELSE Returned(Envelope(conv.value, error))]

\* the data withheld from a response that carries the 429 error
with_error_drop(data, counter, prev, now) ==
    LET reset == new_day(now, prev)
        checked == IF reset THEN 0 ELSE counter
        error == IF over_limit(checked) THEN Error429 ELSE PyNone
        conv == convert(data)
    IN [counter |-> incremented(checked),
        prev |-> now,
        reset |-> reset,
        error |-> error,
        raised |-> conv.raised,
        result |-> IF conv.raised THEN conv
                   ELSE Returned(Envelope(IF error = PyNone THEN conv.value ELSE PyNone, error))]

(* One call of with_error run to its end with nothing else running: the
   globals it leaves, whether it reset the counter, and what it returns (or
   that it raised, which happens only in the conversion, after the globals
   were written). *)
with_error(data, counter, prev, now) ==
    LET reset == new_day(now, prev)
        checked == IF reset THEN 0 ELSE counter
        error == IF over_limit(checked) THEN Error429 ELSE PyNone
        conv == convert(data)
    IN [counter |-> incremented(checked),
        prev |-> now,
        reset |-> reset,
        error |-> error,
        raised |-> conv.raised,
        result |-> IF conv.raised THEN conv ELSE Returned(Envelope(conv.value, error))]

---------------------------------------------------------------------------
(* Results the wrapped operations hand to with_error *)

\* get_news_headlines: an unnamed timestamp index, one headline without text
HeadlinesFrame ==
    DataFrame(PyNone, <<"t1", "t2">>, <<"text", "storyId">>,
              << <<"h1", "s1">>, <<"NaN", "s2">> >>)

\* get_timeseries: the index is named Date
TimeseriesFrame ==
    DataFrame(PyStr("Date"), <<"d1", "d2">>, <<"HIGH", "LOW">>,
              << <<"9", "7">>, <<"8", "NaN">> >>)

\* an unnamed index beside a column that is itself called index
IndexColumnFrame ==
    DataFrame(PyNone, <<"r1">>, <<"index", "value">>, << <<"a", "b">> >>)

EmptyFrame == DataFrame(PyNone, <<>>, <<"text">>, <<>>)

\* the index name is also a column: reset_index raises
CollidingFrame ==
    DataFrame(PyStr("Date"), <<"d1">>, <<"Date", "Value">>, << <<"d1", "5">> >>)

\* two columns of one name: to_json raises
DuplicateColumnsFrame ==
    DataFrame(PyNone, <<"r1">>, <<"A", "A">>, << <<"1", "2">> >>)

StoryText == PyStr("<p>story</p>")
RawDict1 == PyDict(<< <<"headlines", PyList(<<>>)>> >>)
RawDict2 == PyDict(<< <<"columnHeadersCount", PyInt(1)>>, <<"data", PyList(<<>>)>> >>)
RawDict3 == PyDict(<< <<"headers", PyList(<<>>)>>, <<"data", PyList(<<>>)>>,
                      <<"totalRowsCount", PyInt(0)>> >>)
EmptyDict == PyDict(<<>>)

Frames == {HeadlinesFrame, TimeseriesFrame, IndexColumnFrame, EmptyFrame}
BadFrames == {CollidingFrame, DuplicateColumnsFrame}
NonTabular == {PyNone, StoryText, RawDict1, RawDict2, EmptyDict, PyList(<<PyStr("x")>>)}

WrapInputs == Frames \cup BadFrames \cup NonTabular
QuotaInputs == {StoryText}

---------------------------------------------------------------------------
(* State *)

Secrets == {PyNone, PyStr("s3cret")}

NoResp == [op |-> "none"]
NoRun == [date |-> -1, n |-> 0]
Idle == [pc |-> "idle", now |-> 0, error |-> PyNone, tmp |-> 0, reset |-> FALSE]
NoRef == [counter |-> MAXIMUM_NUMBER_OF_REQUESTS, reset |-> FALSE, error |-> PyNone]
NoRace == [concurrent |-> FALSE, day |-> -1, nulls |-> 0, over |-> FALSE,
           reset_for |-> -1, late |-> FALSE, both |-> FALSE]

(* The tracker the counter is compared with: it starts where the counter
   starts, stores the date of every call as with_error does, and differs in
   one thing only, that it resets whenever the date of the call is not the
   stored date. *)
reference(counter, prev, now) ==
    LET reset == now # prev
        checked == IF reset THEN 0 ELSE counter
    IN [counter |-> checked + 1,
        reset |-> reset,
        error |-> IF checked >= MAXIMUM_NUMBER_OF_REQUESTS THEN Error429 ELSE PyNone]

\* the one-day run of wrap calls after a call of with_error
next_run(w, now) ==
    IF w.reset THEN [date |-> now, n |-> 1]
    ELSE IF run.date = now THEN [date |-> now, n |-> run.n + 1]
    ELSE NoRun

(* Module load, lines 21-23: the counter starts at the limit and the stored
   date is the day before the start date. *)
InitWith(secrets) ==
    /\ today \in 1..DaysPerMonth
    /\ PREVIOUS_DATE = Yesterday(today)
    /\ REQUEST_COUNTER = MAXIMUM_NUMBER_OF_REQUESTS
    /\ secret \in secrets
    /\ served = 0
    /\ resp = NoResp
    /\ run = NoRun
    /\ thr = [i \in 1..NThreads |-> Idle]
    /\ incs = 0
    /\ stale = FALSE
    /\ ref = NoRef
    /\ race = NoRace

Init == InitWith(Secrets)

sequential == \A i \in 1..NThreads : thr[i] = Idle

(* The calendar moves on between two operations. *)
AdvanceDate ==
    /\ sequential
    /\ \E d \in (today + 1)..MaxDate : today' = d
    /\ UNCHANGED <<REQUEST_COUNTER, PREVIOUS_DATE, secret, served, resp, run, thr, incs, stale, ref, race>>

(* with_error called on its own with one of `inputs`. *)
Wrap(inputs) ==
    /\ sequential
    /\ \E data \in inputs :
          LET w == with_error(data, REQUEST_COUNTER, PREVIOUS_DATE, today)
          IN /\ REQUEST_COUNTER' = w.counter
             /\ PREVIOUS_DATE' = w.prev
             /\ run' = next_run(w, today)
             /\ resp' = [op |-> "with_error", arg |-> data,
                         pre_count |-> REQUEST_COUNTER, pre_date |-> PREVIOUS_DATE,
                         pre_run |-> run, now |-> today, w |-> w]
    /\ UNCHANGED <<today, secret, thr, incs, stale, race>>

(* A long run of calls: the counter may pass the limit by MaxOver. *)
QuotaWrap ==
    /\ REQUEST_COUNTER < MAXIMUM_NUMBER_OF_REQUESTS + MaxOver
    /\ Wrap(QuotaInputs)
    /\ UNCHANGED <<served, ref>>

(* A short run of calls over every kind of result. *)
WrapCall ==
    /\ served < MaxRequests
    /\ served' = served + 1
    /\ Wrap(WrapInputs)
    /\ ref' = reference(ref.counter, PREVIOUS_DATE, today)

InitQuota == InitWith({PyStr("s3cret")})
NextQuota == QuotaWrap \/ AdvanceDate
SpecQuota == InitQuota /\ [][NextQuota]_vars

NextWrap == WrapCall \/ AdvanceDate
SpecWrap == InitQuota /\ [][NextWrap]_vars

---------------------------------------------------------------------------
(* The access guard, lines 39-42 *)

Tokens == {PyNone, PyStr("s3cret"), PyStr("wrong")}

\* a guard that reports a mismatch instead of raising
verify_token_returns_false(token) == Returned(token = secret)

\* req.headers.get("Authorization") is None for an absent header, and
\* os.getenv is None for an unset variable
verify_token(token) ==
    IF token # secret THEN Raised("401 Unauthorized") ELSE Returned(TRUE)

---------------------------------------------------------------------------
(* The vendor SDK: each call raises or returns one of the results the SDK
   documents for the operation. *)

VendorErrors == {Raised("Error code 400 | Backend error."), Raised("")}

PairOf(df) == PyTuple(<<df, PyNone>>)
PairWithErrors(df) == PyTuple(<<df, PyList(<<RawDict1>>)>>)

\* get_data returns the pair (frame, errors), or the raw response
GetDataResults ==
    {PairOf(IndexColumnFrame), PairWithErrors(PyNone), RawDict2, RawDict3, PyNone}
NewsHeadlinesResults == {HeadlinesFrame, RawDict1}
NewsStoryResults == {StoryText}
SymbologyResults == {IndexColumnFrame, RawDict3}
TimeseriesResults == {TimeseriesFrame, PyNone}

Outcomes(results) == VendorErrors \cup {Returned(v) : v \in results}

\* str(error) of a caught exception
str(exc) == PyStr(exc.message)

ErrorMinus1(exc) == [t |-> "error", code |-> PyInt(-1), message |-> str(exc)]

---------------------------------------------------------------------------
(* Parameter decoding, lines 126-128 and 412 *)

\* the parameters query argument: left out, or a string
Parameters == {PyNone, PyStr("%7B%22SDate%22%3A0%7D"), PyStr("SDate%3D0")}

\* urllib.parse.unquote_plus on the strings above; None has no replace()
unquote_plus(v) ==
    IF v.t # "str" THEN Raised("'NoneType' object has no attribute 'replace'")
    ELSE Returned(CASE v.s = "%7B%22SDate%22%3A0%7D" -> "{\"SDate\":0}"
                    [] v.s = "SDate%3D0" -> "SDate=0"
                    [] OTHER -> v.s)

\* json.loads on the decoded strings above
json_loads(text) ==
    CASE text = "{\"SDate\":0}" -> Returned(PyDict(<< <<"SDate", PyInt(0)>> >>))
      [] OTHER -> Raised("Expecting value: line 1 column 1 (char 0)")

\* line 128
decode_parameters(parameters) ==
    LET text == unquote_plus(parameters)
    IN IF text.raised THEN text ELSE json_loads(text.value)

---------------------------------------------------------------------------
(* The pair unwrapping of handler_get_data, lines 140-141 *)

\* bool(v) of the values get_data returns
truthy(v) ==
    CASE v.t = "none" -> FALSE
      [] v.t \in {"tuple", "list"} -> Len(v.items) > 0
      [] v.t = "dict" -> Len(v.pairs) > 0
      [] v.t = "int" -> v.n # 0

\* len(v) of the containers
py_len(v) ==
    CASE v.t \in {"tuple", "list"} -> Len(v.items)
      [] v.t = "dict" -> Len(v.pairs)

\* the pair unpacked the other way round: `_, data = data`
second_unpacked(v) ==
    CASE v.t \in {"tuple", "list"} -> v.items[2]
      [] v.t = "dict" -> PyStr(v.pairs[2][1])

\* the first of the two values `data, _ = data` unpacks: iterating a dict
\* yields its keys
first_unpacked(v) ==
    CASE v.t \in {"tuple", "list"} -> v.items[1]
      [] v.t = "dict" -> PyStr(v.pairs[1][1])

\* an unwrapping that looks at the type of the result
unwrap_pair_tuple_only(data) ==
    IF data.t = "tuple" /\ Len(data.items) = 2 THEN data.items[1] ELSE data

unwrap_pair(data) ==
    IF truthy(data) /\ py_len(data) = 2 THEN first_unpacked(data) ELSE data

---------------------------------------------------------------------------
(* The handlers.  Each returns what the request did: the HTTP outcome
   (status "200" with a body, or "fault" when an exception leaves the
   handler), the steps taken in order, and the quota globals it leaves. *)

NotAuthorizedBody == [t |-> "envelope", data |-> PyNone, error |-> PyStr("Not autorized")]

Done(status, body, events, counter, prev, passed, w) ==
    [status |-> status, body |-> body, events |-> events,
     counter |-> counter, prev |-> prev, passed |-> passed, w |-> w]

NoWrap == [reset |-> FALSE]

\* `return with_error(data)` after the steps `before`
return_with_error(data, before, counter, prev, now) ==
    LET w == with_error(data, counter, prev, now)
    IN Done(IF w.raised THEN "fault" ELSE "200",
            IF w.raised THEN PyNone ELSE w.result.value,
            before \o <<"quota_check", "increment", "convert">>,
            w.counter, w.prev, data, w)

\* an except clause that lets the failure through
vendor_failed_reraise(exc, before, counter, prev) ==
    Done("fault", PyNone, before, counter, prev, PyNone, NoWrap)

\* an except clause that counts the failed call against the quota
vendor_failed_counted(exc, before, counter, prev) ==
    Done("200", Envelope(PyNone, ErrorMinus1(exc)), before, incremented(counter), prev,
         PyNone, NoWrap)

\* the except clause: the vendor's failure as the envelope's error
vendor_failed(exc, before, counter, prev) ==
    Done("200", Envelope(PyNone, ErrorMinus1(exc)), before, counter, prev, PyNone, NoWrap)

\* lines 124-142
handler_get_data(authorized, parameters, outcome, counter, prev, now) ==
    IF ~authorized
    THEN Done("200", NotAuthorizedBody, <<>>, counter, prev, PyNone, NoWrap)
    ELSE LET decoded == decode_parameters(parameters)
         IN IF decoded.raised
            THEN Done("fault", PyNone, <<"decode">>, counter, prev, PyNone, NoWrap)
            ELSE IF outcome.raised
            THEN vendor_failed(outcome, <<"decode", "vendor">>, counter, prev)
            ELSE return_with_error(unwrap_pair(outcome.value),
                                   <<"decode", "vendor", "unwrap">>, counter, prev, now)

\* a handler that refuses to call the vendor once the quota is used up
handler_plain_gated(authorized, outcome, counter, prev, now) ==
    IF over_limit(counter)
    THEN Done("200", Envelope(PyNone, Error429), <<"quota_check">>, counter, prev, PyNone, NoWrap)
    ELSE IF outcome.raised
    THEN vendor_failed(outcome, <<"vendor">>, counter, prev)
    ELSE return_with_error(outcome.value, <<"vendor">>, counter, prev, now)

\* lines 208-221, 249-255, 310-323: guard branch, vendor call, with_error
handler_plain(authorized, outcome, counter, prev, now) ==
    IF ~authorized
    THEN Done("200", NotAuthorizedBody, <<>>, counter, prev, PyNone, NoWrap)
    ELSE IF outcome.raised
    THEN vendor_failed(outcome, <<"vendor">>, counter, prev)
    ELSE return_with_error(outcome.value, <<"vendor">>, counter, prev, now)

handler_news_headlines(authorized, outcome, counter, prev, now) ==
    handler_plain(authorized, outcome, counter, prev, now)

handler_news_story(authorized, outcome, counter, prev, now) ==
    handler_plain(authorized, outcome, counter, prev, now)

handler_symbology(authorized, outcome, counter, prev, now) ==
    handler_plain(authorized, outcome, counter, prev, now)

\* lines 410-429: fields is always a string (default "*"), so line 412
\* decodes without raising
handler_timeseries(authorized, outcome, counter, prev, now) ==
    IF ~authorized
    THEN Done("200", NotAuthorizedBody, <<>>, counter, prev, PyNone, NoWrap)
    ELSE IF outcome.raised
    THEN vendor_failed(outcome, <<"decode", "vendor">>, counter, prev)
    ELSE return_with_error(outcome.value, <<"decode", "vendor">>, counter, prev, now)

---------------------------------------------------------------------------
(* One request, from the guard to the response *)

Endpoints == {"get_data", "news_headlines", "news_story", "symbology", "timeseries"}

\* a rejection that is counted against the quota
Rejected_counted ==
    Done("401", PyStr("Unauthorized"), <<>>, incremented(REQUEST_COUNTER), today, PyNone, NoWrap)

\* Depends(verify_token) raised: the framework answers 401 and the handler
\* never runs
Rejected == Done("401", PyStr("Unauthorized"), <<>>, REQUEST_COUNTER, PREVIOUS_DATE, PyNone, NoWrap)

\* what resp holds of an argument the request never read, and of a vendor
\* call that was never made
NotRead == [t |-> "unread"]
NotCalled == [raised |-> FALSE, called |-> FALSE]

Serve(op, token, parameters, outcome, guard, r) ==
    /\ sequential
    /\ served < MaxRequests
    /\ served' = served + 1
    /\ REQUEST_COUNTER' = r.counter
    /\ PREVIOUS_DATE' = r.prev
    /\ run' = IF "increment" \in Range(r.events) THEN next_run(r.w, today) ELSE run
    /\ resp' = [op |-> op, token |-> token,
                parameters |-> IF "decode" \in Range(r.events) THEN parameters ELSE NotRead,
                authorized |-> ~guard.raised,
                outcome |-> IF "vendor" \in Range(r.events) THEN outcome ELSE NotCalled,
                status |-> r.status, body |-> r.body, events |-> r.events,
                passed |-> r.passed, w |-> r.w,
                pre_count |-> REQUEST_COUNTER, pre_date |-> PREVIOUS_DATE,
                pre_run |-> run, now |-> today]
    /\ UNCHANGED <<today, secret, thr, incs, stale, ref, race>>

GetData ==
    \E token \in Tokens, parameters \in Parameters, outcome \in Outcomes(GetDataResults) :
        LET guard == verify_token(token)
        IN Serve("get_data", token, parameters, outcome, guard,
                 IF guard.raised THEN Rejected
                 ELSE handler_get_data(guard.value, parameters, outcome,
                                       REQUEST_COUNTER, PREVIOUS_DATE, today))

NewsHeadlines ==
    \E token \in Tokens, outcome \in Outcomes(NewsHeadlinesResults) :
        LET guard == verify_token(token)
        IN Serve("news_headlines", token, PyNone, outcome, guard,
                 IF guard.raised THEN Rejected
                 ELSE handler_news_headlines(guard.value, outcome,
                                             REQUEST_COUNTER, PREVIOUS_DATE, today))

NewsStory ==
    \E token \in Tokens, outcome \in Outcomes(NewsStoryResults) :
        LET guard == verify_token(token)
        IN Serve("news_story", token, PyNone, outcome, guard,
                 IF guard.raised THEN Rejected
                 ELSE handler_news_story(guard.value, outcome,
                                         REQUEST_COUNTER, PREVIOUS_DATE, today))

Symbology ==
    \E token \in Tokens, outcome \in Outcomes(SymbologyResults) :
        LET guard == verify_token(token)
        IN Serve("symbology", token, PyNone, outcome, guard,
                 IF guard.raised THEN Rejected
                 ELSE handler_symbology(guard.value, outcome,
                                        REQUEST_COUNTER, PREVIOUS_DATE, today))

Timeseries ==
    \E token \in Tokens, outcome \in Outcomes(TimeseriesResults) :
        LET guard == verify_token(token)
        IN Serve("timeseries", token, PyNone, outcome, guard,
                 IF guard.raised THEN Rejected
                 ELSE handler_timeseries(guard.value, outcome,
                                         REQUEST_COUNTER, PREVIOUS_DATE, today))

Next == GetData \/ NewsHeadlines \/ NewsStory \/ Symbology \/ Timeseries \/ AdvanceDate

Spec == Init /\ [][Next]_vars

---------------------------------------------------------------------------
(* with_error under concurrent requests.  The handlers are plain functions,
   which the framework runs on the threads of a pool; with_error takes no
   lock, so the threads interleave between its statements, and between the
   load and the store of `REQUEST_COUNTER += 1`.  pc names the line a thread
   executes next. *)

Threads == 1..NThreads

at(t, line) == thr[t].pc = line
goto(t, line) == thr' = [thr EXCEPT ![t].pc = line]

\* history: the call on thread u, still in progress, has reset the counter
\* for the date `now` and stored its increment
reset_after(u, now) == thr[u].reset /\ thr[u].now = now /\ at(u, "67")

\* history: one more call that read the date `now` is let through
admitted(now) ==
    LET n == IF race.day = now THEN race.nulls + 1 ELSE 1
    IN IF now < race.day THEN race
       ELSE [race EXCEPT !.day = now, !.nulls = n,
                         !.over = @ \/ n > MAXIMUM_NUMBER_OF_REQUESTS]

\* a handler whose vendor call returned enters with_error
EnterUpTo(t, calls) ==
    /\ at(t, "idle")
    /\ served < calls
    /\ served' = served + 1
    /\ thr' = [thr EXCEPT ![t] = [Idle EXCEPT !.pc = "59"]]
    /\ race' = [race EXCEPT !.concurrent = @ \/ \E u \in Threads \ {t} : ~at(u, "idle")]
    /\ UNCHANGED <<REQUEST_COUNTER, PREVIOUS_DATE, today, secret, resp, run, incs, stale, ref>>

Enter(t) == EnterUpTo(t, MaxCalls)

\* line 59
ReadToday(t) ==
    /\ at(t, "59")
    /\ thr' = [thr EXCEPT ![t].now = today, ![t].pc = "60"]
    /\ UNCHANGED <<REQUEST_COUNTER, PREVIOUS_DATE, today, secret, served, resp, run, incs, stale, ref, race>>

\* line 60
CompareDay(t) ==
    /\ at(t, "60")
    /\ goto(t, IF new_day(thr[t].now, PREVIOUS_DATE) THEN "61" ELSE "62")
    /\ UNCHANGED <<REQUEST_COUNTER, PREVIOUS_DATE, today, secret, served, resp, run, incs, stale, ref, race>>

\* line 61
ResetCounter(t) ==
    /\ at(t, "61")
    /\ REQUEST_COUNTER' = 0
    /\ incs' = 0
    /\ stale' = FALSE
    /\ race' = [race EXCEPT !.reset_for = thr[t].now,
                            !.late = @ \/ (race.reset_for = thr[t].now /\ incs > 0),
                            !.both = @ \/ \E u \in Threads \ {t} : reset_after(u, thr[t].now)]
    /\ thr' = [thr EXCEPT ![t].reset = TRUE, ![t].pc = "62"]
    /\ UNCHANGED <<PREVIOUS_DATE, today, secret, served, resp, run, ref>>

\* line 62
StoreDate(t) ==
    /\ at(t, "62")
    /\ PREVIOUS_DATE' = thr[t].now
    /\ goto(t, "64")
    /\ UNCHANGED <<REQUEST_COUNTER, today, secret, served, resp, run, incs, stale, ref, race>>

\* lines 63-65
CheckLimit(t) ==
    /\ at(t, "64")
    /\ thr' = [thr EXCEPT ![t].error = IF over_limit(REQUEST_COUNTER) THEN Error429 ELSE PyNone,
                          ![t].pc = "66"]
    /\ race' = IF over_limit(REQUEST_COUNTER) THEN race ELSE admitted(thr[t].now)
    /\ UNCHANGED <<REQUEST_COUNTER, PREVIOUS_DATE, today, secret, served, resp, run, incs, stale, ref>>

\* line 66, the load of REQUEST_COUNTER
LoadCounter(t) ==
    /\ at(t, "66")
    /\ thr' = [thr EXCEPT ![t].tmp = REQUEST_COUNTER, ![t].pc = "66s"]
    /\ UNCHANGED <<REQUEST_COUNTER, PREVIOUS_DATE, today, secret, served, resp, run, incs, stale, ref, race>>

\* line 66, the store of REQUEST_COUNTER
StoreCounter(t) ==
    /\ at(t, "66s")
    /\ REQUEST_COUNTER' = incremented(thr[t].tmp)
    /\ incs' = incs + 1
    /\ stale' = (stale \/ REQUEST_COUNTER # thr[t].tmp)
    /\ goto(t, "67")
    /\ UNCHANGED <<PREVIOUS_DATE, today, secret, served, resp, run, ref, race>>

\* lines 67-73
Return(t) ==
    /\ at(t, "67")
    /\ resp' = [op |-> "thread", thread |-> t, now |-> thr[t].now,
                result |-> Envelope(convert(StoryText).value, thr[t].error)]
    /\ thr' = [thr EXCEPT ![t] = Idle]
    /\ UNCHANGED <<REQUEST_COUNTER, PREVIOUS_DATE, today, secret, served, run, incs, stale, ref, race>>

\* midnight passes, whatever the threads are doing
Midnight ==
    /\ \E d \in (today + 1)..MaxDate : today' = d
    /\ UNCHANGED <<REQUEST_COUNTER, PREVIOUS_DATE, secret, served, resp, run, thr, incs, stale, ref, race>>

NextThreads ==
    \/ \E t \in Threads :
          \/ Enter(t) \/ ReadToday(t) \/ CompareDay(t) \/ ResetCounter(t) \/ StoreDate(t)
          \/ CheckLimit(t) \/ LoadCounter(t) \/ StoreCounter(t) \/ Return(t)
    \/ Midnight

SpecThreads == InitQuota /\ [][NextThreads]_vars

(* Two overlapping calls late in a day and across a midnight.  The run starts
   at module load, or when all calls of the start date but the last have been
   made one after another: k such calls leave the counter at k and the
   stored date at the start date. *)
AfterCalls(k) ==
    /\ today = 1
    /\ PREVIOUS_DATE = today
    /\ REQUEST_COUNTER = k
    /\ secret = PyStr("s3cret")
    /\ served = 0
    /\ resp = NoResp
    /\ run = [date |-> today, n |-> k]
    /\ thr = [i \in 1..NThreads |-> Idle]
    /\ incs = k
    /\ stale = FALSE
    /\ ref = NoRef
    /\ race = [NoRace EXCEPT !.day = today, !.nulls = k, !.reset_for = today]

InitRace == InitQuota \/ AfterCalls(MAXIMUM_NUMBER_OF_REQUESTS - 1)

\* the two calls that overlap run on two threads of the pool
Racers == {1, 2}

EnterRace(t) == EnterUpTo(t, MaxRaceCalls)

NextRace ==
    \/ \E t \in Racers :
          \/ EnterRace(t) \/ ReadToday(t) \/ CompareDay(t) \/ ResetCounter(t) \/ StoreDate(t)
          \/ CheckLimit(t) \/ LoadCounter(t) \/ StoreCounter(t) \/ Return(t)
    \/ Midnight

SpecRace == InitRace /\ [][NextRace]_vars

---------------------------------------------------------------------------
(* Claims *)

Handled == resp.op \in Endpoints
Wrapped == resp.op = "with_error"
Did(step) == step \in Range(resp.events)
Pos(step) == CHOOSE i \in DOMAIN resp.events : resp.events[i] = step
VendorReturned == Did("vendor") /\ ~resp.outcome.raised
VendorRaised == Did("vendor") /\ resp.outcome.raised
\* the counter the limit check of the last call read
Checked == IF resp.w.reset THEN 0 ELSE resp.pre_count

(* C1: every request whose Authorization header is absent or differs from the
   configured secret is rejected with 401 and makes no vendor call, whatever
   the secret is, also when it is not configured. *)
ClaimC1 ==
    Handled /\ (resp.token = PyNone \/ resp.token # secret)
        => resp.status = "401" /\ ~Did("vendor")

(* C2: in a run of wrap calls on one day that starts with the call that reset
   the counter, calls 1 to 10,000 return error = null, every later call
   returns the 429 error, and every call adds exactly 1 to the counter. *)
TheoremC2 ==
    Wrapped /\ run.n >= 1
        => /\ run.n <= MAXIMUM_NUMBER_OF_REQUESTS => resp.w.error = PyNone
           /\ run.n > MAXIMUM_NUMBER_OF_REQUESTS => resp.w.error = Error429
           /\ REQUEST_COUNTER = run.n
           /\ REQUEST_COUNTER = Checked + 1

WitnessC2 ==
    /\ Wrapped
    /\ run.n = MAXIMUM_NUMBER_OF_REQUESTS + 1
    /\ resp.w.error = Error429
    /\ resp.pre_count = MAXIMUM_NUMBER_OF_REQUESTS
    /\ REQUEST_COUNTER = MAXIMUM_NUMBER_OF_REQUESTS + 1

(* C3: a wrap call resets the counter if and only if today's day-of-month
   differs from the stored date's day-of-month, and a later call on the same
   day does not reset it again. *)
TheoremC3 ==
    Wrapped
        => /\ resp.w.reset <=> Day(resp.now) # Day(resp.pre_date)
           /\ resp.w.reset => REQUEST_COUNTER = 1
           /\ ~resp.w.reset => REQUEST_COUNTER = resp.pre_count + 1
           /\ resp.pre_date = resp.now => ~resp.w.reset
           /\ PREVIOUS_DATE = resp.now

\* the second call of a day whose first call was the reset
WitnessC3 ==
    /\ Wrapped
    /\ resp.pre_run = [date |-> resp.now, n |-> 1]
    /\ ~resp.w.reset
    /\ REQUEST_COUNTER = 2

(* C4: when the vendor call raises, the handler answers 200 with the envelope
   {data: null, error: {code: -1, message: <failure text>}} and no fault
   leaves it. *)
TheoremC4 ==
    Handled /\ VendorRaised
        => /\ resp.status = "200"
           /\ resp.body = [t |-> "envelope", data |-> PyNone,
                           error |-> [t |-> "error", code |-> PyInt(-1),
                                      message |-> PyStr(resp.outcome.message)]]

WitnessC4 ==
    /\ resp.op = "timeseries"
    /\ VendorRaised
    /\ resp.body.error.message = PyStr("Error code 400 | Backend error.")

(* C5: no failure during an authorized request (parameter decoding, the
   vendor call, unwrapping, wrapping) leaves the handler as a fault. *)
ClaimC5 == Handled /\ resp.authorized => resp.status # "fault"

(* C6 as stated: every authorized request invokes the vendor operation,
   whatever the counter, and checks the quota only after the vendor call. *)
ClaimC6 ==
    Handled /\ resp.authorized
        => /\ Did("vendor")
           /\ Did("quota_check") => Pos("vendor") < Pos("quota_check")

\* the parameters of the last request decode (only get_data decodes any)
Decodes == resp.op = "get_data" => ~decode_parameters(resp.parameters).raised

(* C6 amended: every authorized request whose parameters decode invokes the
   vendor operation, whatever the counter, also at or above the limit, and
   checks the quota only after the vendor call. *)
TheoremC6 ==
    Handled /\ resp.authorized /\ Decodes
        => /\ Did("vendor")
           /\ Did("quota_check") => Pos("vendor") < Pos("quota_check")

\* a vendor call made with the counter at the limit and no reset
WitnessC6 ==
    /\ Handled /\ resp.authorized
    /\ resp.pre_count >= MAXIMUM_NUMBER_OF_REQUESTS
    /\ VendorReturned
    /\ ~resp.w.reset
    /\ resp.body.error = Error429

(* C8 as stated: every handler invocation passes through wrap and increments
   the counter, whatever the vendor call did. *)
ClaimC8 ==
    Handled /\ resp.authorized
        => Did("increment") /\ REQUEST_COUNTER = Checked + 1

(* C8 amended: a handler invocation whose vendor call returns passes through
   wrap, which adds 1 to the counter and stores today's date; an invocation
   whose vendor call raises or is never made leaves the quota state as it
   was. *)
TheoremC8 ==
    Handled /\ resp.authorized
        => IF VendorReturned
           THEN /\ Did("increment")
                /\ REQUEST_COUNTER = Checked + 1
                /\ PREVIOUS_DATE = resp.now
           ELSE /\ ~Did("increment")
                /\ REQUEST_COUNTER = resp.pre_count
                /\ PREVIOUS_DATE = resp.pre_date

\* a second counted request of a day
WitnessC8 ==
    /\ Handled /\ VendorReturned
    /\ resp.pre_count = 1
    /\ REQUEST_COUNTER = 2

\* the last request was a get_data whose vendor call returned a pair
ReturnedPair ==
    /\ resp.op = "get_data"
    /\ VendorReturned
    /\ resp.outcome.value.t = "tuple"
    /\ Len(resp.outcome.value.items) = 2

(* C9: when get_data returns a (data, metadata) pair, only data is passed to
   wrap and becomes the envelope's data; the metadata is in no part of the
   response. *)
TheoremC9 ==
    ReturnedPair
        => /\ resp.passed = resp.outcome.value.items[1]
           /\ resp.status = "200"
           /\ resp.body.data = convert(resp.outcome.value.items[1]).value
           /\ resp.body.error \in {PyNone, Error429}

WitnessC9 ==
    /\ resp.op = "get_data"
    /\ VendorReturned
    /\ resp.outcome.value = PyTuple(<<IndexColumnFrame, PyNone>>)
    /\ resp.body.data =
          PyList(<<PyDict(<< <<"level_0", PyStr("r1")>>, <<"index", PyStr("a")>>,
                             <<"value", PyStr("b")>> >>)>>)

(* C10: a call of wrap that returns a non-tabular result returns it
   unmodified as the envelope's data; for a tabular result the data is one
   mapping per row, in row order, the index field first and then the data
   columns in their original order. *)
TheoremC10 ==
    Wrapped /\ ~resp.w.raised
        => LET data == resp.w.result.value.data
               arg == resp.arg
           IN IF arg.t # "df" THEN data = arg
              ELSE /\ data.t = "list"
                   /\ Len(data.items) = Len(arg.rows)
                   /\ \A i \in DOMAIN arg.rows :
                         LET pairs == data.items[i].pairs
                         IN /\ data.items[i].t = "dict"
                            /\ Len(pairs) = Len(arg.columns) + 1
                            /\ pairs[1][2] = json_cell(arg.index[i])
                            /\ pairs[1][1] \notin Range(arg.columns)
                            /\ \A j \in DOMAIN arg.columns :
                                  /\ pairs[j + 1][1] = arg.columns[j]
                                  /\ pairs[j + 1][2] = json_cell(arg.rows[i][j])

WitnessC10 ==
    /\ Wrapped
    /\ resp.arg = TimeseriesFrame
    /\ resp.w.result.value.data =
          PyList(<< PyDict(<< <<"Date", PyStr("d1")>>, <<"HIGH", PyStr("9")>>,
                              <<"LOW", PyStr("7")>> >>),
                    PyDict(<< <<"Date", PyStr("d2")>>, <<"HIGH", PyStr("8")>>,
                              <<"LOW", PyNone>> >>) >>)

(* C7: concurrent calls of wrap can lose an update: the counter can end below
   the number of increments made since the last reset.  That happens only
   after a thread stored over a value that another thread wrote between its
   load and its store. *)
TheoremC7 == REQUEST_COUNTER < incs => stale

\* every call has returned, and the counter is short of the increments made
WitnessC7 ==
    /\ \A t \in Threads : thr[t] = Idle
    /\ resp.op = "thread"
    /\ incs = 2
    /\ REQUEST_COUNTER = 1

(* C11: the guard has no side effects: a request it rejects leaves
   request_count and last_reset_date as they were before the request. *)
TheoremC11 ==
    Handled /\ resp.status = "401"
        => /\ REQUEST_COUNTER = resp.pre_count
           /\ PREVIOUS_DATE = resp.pre_date
           /\ resp.events = <<>>

\* a rejection after a counted request, on a later date than the stored one
WitnessC11 ==
    /\ Handled /\ resp.status = "401"
    /\ resp.pre_count = 1
    /\ resp.now > resp.pre_date
    /\ REQUEST_COUNTER = 1

\* the counter the limit check reads: 0 after a reset step that fired
AfterResetStep == IF Day(resp.now) # Day(resp.pre_date) THEN 0 ELSE resp.pre_count

(* C12: a wrap call returns the 429 error if and only if the counter, read
   after the reset step and before the increment, is at or above 10000, and
   null otherwise; either way the envelope's data is the converted result. *)
TheoremC12 ==
    Wrapped
        => /\ resp.w.error = Error429 <=> AfterResetStep >= MAXIMUM_NUMBER_OF_REQUESTS
           /\ resp.w.error = PyNone <=> AfterResetStep < MAXIMUM_NUMBER_OF_REQUESTS
           /\ ~resp.w.raised =>
                 /\ resp.w.result.value.error = resp.w.error
                 /\ resp.w.result.value.data = convert(resp.arg).value

\* a response that carries the 429 error and the converted headlines
WitnessC12 ==
    /\ Wrapped
    /\ resp.arg = HeadlinesFrame
    /\ resp.w.result.value.error = Error429
    /\ resp.w.result.value.data =
          PyList(<< PyDict(<< <<"index", PyStr("t1")>>, <<"text", PyStr("h1")>>,
                              <<"storyId", PyStr("s1")>> >>),
                    PyDict(<< <<"index", PyStr("t2")>>, <<"text", PyNone>>,
                              <<"storyId", PyStr("s2")>> >>) >>)

\* the last call found the counter at or above the limit on a new day-of-month
OverLimitNewDay ==
    /\ Wrapped
    /\ resp.pre_count >= MAXIMUM_NUMBER_OF_REQUESTS
    /\ Day(resp.now) # Day(resp.pre_date)

(* C13: the reset step comes before the limit check: with the counter at or
   above the limit, the first wrap call on a day with another day-of-month
   returns error = null and leaves request_count = 1 and last_reset_date =
   that day. *)
TheoremC13 ==
    OverLimitNewDay
        => /\ resp.w.error = PyNone
           /\ REQUEST_COUNTER = 1
           /\ PREVIOUS_DATE = resp.now

\* the call that follows a day on which 10,001 calls were made
WitnessC13 ==
    /\ Wrapped
    /\ resp.pre_run.n = MAXIMUM_NUMBER_OF_REQUESTS + 1
    /\ resp.pre_count = MAXIMUM_NUMBER_OF_REQUESTS + 1
    /\ resp.now # resp.pre_run.date
    /\ resp.w.error = PyNone
    /\ REQUEST_COUNTER = 1

(* C16: the first wrap call after process start, on whatever date it is made,
   returns error = null and leaves request_count = 1. *)
ClaimC16 ==
    Wrapped /\ served = 1
        => resp.w.error = PyNone /\ REQUEST_COUNTER = 1

(* C17: no execution of a handler returns the body {data: null, error: "Not
   autorized"}: the guard raises the 401 fault or yields authorized = true,
   so every request whose header differs from the secret gets the 401
   response. *)
TheoremC17 ==
    Handled
        => /\ resp.body # [t |-> "envelope", data |-> PyNone,
                           error |-> PyStr("Not autorized")]
           /\ resp.token # secret => resp.status = "401" /\ resp.body = PyStr("Unauthorized")
           /\ resp.token = secret => resp.status # "401"

\* a wrong header answered with the 401 response
WitnessC17 ==
    /\ Handled
    /\ resp.token = PyStr("wrong")
    /\ secret = PyStr("s3cret")
    /\ resp.status = "401"
    /\ ~resp.authorized

\* bool(v) is false: None or an empty container
Falsy(v) ==
    \/ v = PyNone
    \/ v.t \in {"tuple", "list"} /\ v.items = <<>>
    \/ v.t = "dict" /\ v.pairs = <<>>

\* len(v) = 2 for a container
OfLength2(v) ==
    \/ v.t \in {"tuple", "list"} /\ Len(v.items) = 2
    \/ v.t = "dict" /\ Len(v.pairs) = 2

\* what iterating v yields first: an element, or a key of a dict
FirstOf(v) == IF v.t = "dict" THEN PyStr(v.pairs[1][1]) ELSE v.items[1]

(* C18: in handler_get_data a vendor result reaches wrap unchanged if and only
   if it is falsy or its length is not 2; every truthy result of length 2, a
   pair or not (a raw mapping with two keys), is replaced by its first
   element before wrapping. *)
TheoremC18 ==
    resp.op = "get_data" /\ VendorReturned
        => LET v == resp.outcome.value
           IN /\ resp.passed = v <=> (Falsy(v) \/ ~OfLength2(v))
              /\ (~Falsy(v) /\ OfLength2(v)) => resp.passed = FirstOf(v)

\* a raw response with two keys, of which the first key is wrapped
WitnessC18 ==
    /\ resp.op = "get_data" /\ VendorReturned
    /\ resp.outcome.value = RawDict2
    /\ resp.passed = PyStr("columnHeadersCount")
    /\ resp.body.data = PyStr("columnHeadersCount")

\* history: the call also ran on the reference tracker
Compared == Wrapped /\ served > 0

\* consecutive calls on two dates of one day number
CrossedMonth == resp.now # resp.pre_date /\ Day(resp.now) = Day(resp.pre_date)

(* C14: run beside a tracker that resets whenever the date of a call is not
   the stored date, on the same calls with dates that never go back, the
   counter is never reset by a call that does not reset the tracker; the
   tracker alone resets exactly on the calls whose date differs from the
   stored one in the month only, and from then on the tracker counts fewer
   calls and answers 429 only where the counter does. *)
TheoremC14 ==
    Compared
        => /\ resp.w.reset => ref.reset
           /\ (ref.reset /\ ~resp.w.reset) <=> CrossedMonth
           /\ ref.counter <= REQUEST_COUNTER
           /\ ref.error = Error429 => resp.w.error = Error429

\* the second of two calls a month apart: refused by the counter, let through
\* by the tracker, and the counts differ
WitnessC14 ==
    /\ Compared /\ served = 2
    /\ CrossedMonth
    /\ resp.pre_run = NoRun
    /\ ref.reset /\ ~resp.w.reset
    /\ resp.w.error = Error429 /\ ref.error = PyNone
    /\ ref.counter = 1 /\ REQUEST_COUNTER > MAXIMUM_NUMBER_OF_REQUESTS

(* C15: calls of with_error that overlap can let more than
   MAXIMUM_NUMBER_OF_REQUESTS calls of one date through with a null error,
   and can reset the counter a second time for one date after an increment
   was stored for it; calls made one after another do neither. *)
TheoremC15 == (race.over \/ race.late) => race.concurrent

\* both have happened: a call beyond the limit was let through on one date,
\* and on a later date one of two calls in progress reset the counter after
\* the other had reset it and stored its increment
WitnessC15 ==
    /\ race.over /\ race.late /\ race.both
    /\ race.reset_for > 0
    /\ REQUEST_COUNTER <= 1
    /\ \A t \in Threads : at(t, "idle")

====
